---- MODULE Spec2Model ----
(***************************************************************************)
(* State-machine model of the checkers-variant game: the rules engine of   *)
(* gameLogic.ts, the GameProvider state machine of GameContext.tsx, the AI *)
(* players of aiService.ts and the victory screen of Home.tsx.             *)
(***************************************************************************)
EXTENDS Integers, Sequences, FiniteSets, TLC

(***************************************************************************)
(* Program constants.                                                      *)
(***************************************************************************)
BoardSize == 8
TOTAL_PIECES_PER_PLAYER == 12
MaxNormal == 12
MaxBagel == 6
MaxPancake == 6
MAX_PIECE_COUNTS == [normal |-> MaxNormal, bagel |-> MaxBagel, pancake |-> MaxPancake]

(***************************************************************************)
(* Bounds of the model (not program constants).                            *)
(***************************************************************************)
MaxCalls == 5       \* startGame calls, board writes of placePiece and committed moves, per run
MaxPlies == 2       \* committed moves played on from a drawn position
Margin == 1         \* rows and columns beyond the board edge a destination is drawn from
MaxOfType == 3      \* pieces of one variant handed to the AI for placement
MaxBatch == 2       \* placePiece calls made from one rendered snapshot
MaxSockets == 3     \* WebSocket connections the server accepts in a run

(***************************************************************************)
(* Data model (game.ts).                                                   *)
(***************************************************************************)
PlayerColor == {"red", "blue"}
PieceType == {"normal", "bagel", "pancake", "bomb", "vinyl", "flying disk"}
GamePhase == {"menu", "draft", "placement", "play", "gameOver"}
Idx == 0 .. (BoardSize - 1)

Square(r, c) == [row |-> r, col |-> c]
Squares == {Square(r, c) : r \in Idx, c \in Idx}

\* JavaScript null, for a board slot, a selection or a capture result.
Null == [id |-> "null"]

Piece(id, type, player, crowned, pos) ==
    [id |-> id, type |-> type, player |-> player, crowned |-> crowned, position |-> pos]

Abs(x) == IF x < 0 THEN -x ELSE x
Sign(x) == IF x < 0 THEN -1 ELSE IF x > 0 THEN 1 ELSE 0
Opponent(p) == IF p = "red" THEN "blue" ELSE "red"
InBounds(s) == s.row >= 0 /\ s.row < BoardSize /\ s.col >= 0 /\ s.col < BoardSize
At(board, s) == board[s.row][s.col]
Contains(seq, x) == \E i \in 1 .. Len(seq) : seq[i] = x

initializeEmptyBoard == [r \in Idx |-> [c \in Idx |-> Null]]

(***************************************************************************)
(* Move Generator (gameLogic.ts).  Lists are built in the code's order.    *)
(***************************************************************************)
StepTargets(board, cands) ==
    SelectSeq(cands, LAMBDA m : InBounds(m) /\ At(board, m) = Null)

JumpTargets(board, piece, cands) ==
    LET ok == SelectSeq(cands, LAMBDA m :
                  /\ InBounds(m.end)
                  /\ At(board, m.mid) # Null
                  /\ At(board, m.mid).player # piece.player
                  /\ At(board, m.end) = Null)
    IN  [i \in 1 .. Len(ok) |-> ok[i].end]

Jump(row, col, dr, dc) ==
    [mid |-> Square(row + dr, col + dc), end |-> Square(row + 2 * dr, col + 2 * dc)]

\* Mutant: an uncrowned piece steps backward too.
getNormalMovesBackward(board, piece) ==
    LET row == piece.position.row
        col == piece.position.col
        direction == IF piece.player = "red" THEN 1 ELSE -1
        diagonalMoves ==
            << Square(row + direction, col - 1), Square(row + direction, col + 1),
               Square(row - direction, col - 1), Square(row - direction, col + 1) >>
        captureMoves ==
            << Jump(row, col, direction, -1), Jump(row, col, direction, 1) >>
            \o (IF piece.crowned
                THEN << Jump(row, col, -direction, -1), Jump(row, col, -direction, 1) >>
                ELSE << >>)
    IN  StepTargets(board, diagonalMoves) \o JumpTargets(board, piece, captureMoves)

getNormalMoves(board, piece) ==
    LET row == piece.position.row
        col == piece.position.col
        direction == IF piece.player = "red" THEN 1 ELSE -1
        diagonalMoves ==
            << Square(row + direction, col - 1), Square(row + direction, col + 1) >>
            \o (IF piece.crowned
                THEN << Square(row - direction, col - 1), Square(row - direction, col + 1) >>
                ELSE << >>)
        captureMoves ==
            << Jump(row, col, direction, -1), Jump(row, col, direction, 1) >>
            \o (IF piece.crowned
                THEN << Jump(row, col, -direction, -1), Jump(row, col, -direction, 1) >>
                ELSE << >>)
    IN  StepTargets(board, diagonalMoves) \o JumpTargets(board, piece, captureMoves)

isValidDiagonalMove(from, to, crowned, player) ==
    LET rowDiff == to.row - from.row
        colDiff == to.col - from.col
    IN  IF Abs(rowDiff) # Abs(colDiff) THEN FALSE
        ELSE IF ~crowned /\ player = "red" /\ rowDiff < 0 THEN FALSE
        ELSE IF ~crowned /\ player = "blue" /\ rowDiff > 0 THEN FALSE
        ELSE TRUE

\* Mutant: the last move is used whoever made it.
getBagelMovesAnyMover(board, piece, moveHistory) ==
    LET normalMoves == getNormalMoves(board, piece)
        lastMove == moveHistory[Len(moveHistory)]
        specialMoves ==
            IF /\ Len(moveHistory) > 0
               /\ isValidDiagonalMove(piece.position, lastMove.from, piece.crowned, piece.player)
               /\ At(board, lastMove.from) = Null
            THEN << lastMove.from >>
            ELSE << >>
    IN  normalMoves \o specialMoves

getBagelMoves(board, piece, moveHistory) ==
    LET normalMoves == getNormalMoves(board, piece)
        lastMove == moveHistory[Len(moveHistory)]
        specialMoves ==
            IF /\ Len(moveHistory) > 0
               /\ lastMove.piece.player # piece.player
               /\ isValidDiagonalMove(piece.position, lastMove.from, piece.crowned, piece.player)
               /\ At(board, lastMove.from) = Null
            THEN << lastMove.from >>
            ELSE << >>
    IN  normalMoves \o specialMoves

\* Mutant: the pancake steps along its column as well as along its row.
getPancakeMovesOrthogonal(board, piece) ==
    LET row == piece.position.row
        col == piece.position.col
        possibleMoves ==
            << Square(row + 1, col + 1), Square(row + 1, col - 1),
               Square(row - 1, col + 1), Square(row - 1, col - 1),
               Square(row, col + 1), Square(row, col - 1),
               Square(row + 1, col), Square(row - 1, col) >>
        captureDirections ==
            << Jump(row, col, 1, 1), Jump(row, col, 1, -1),
               Jump(row, col, -1, 1), Jump(row, col, -1, -1),
               Jump(row, col, 0, 1), Jump(row, col, 0, -1) >>
    IN  StepTargets(board, possibleMoves) \o JumpTargets(board, piece, captureDirections)

getPancakeMoves(board, piece) ==
    LET row == piece.position.row
        col == piece.position.col
        possibleMoves ==
            << Square(row + 1, col + 1), Square(row + 1, col - 1),
               Square(row - 1, col + 1), Square(row - 1, col - 1),
               Square(row, col + 1), Square(row, col - 1) >>
        captureDirections ==
            << Jump(row, col, 1, 1), Jump(row, col, 1, -1),
               Jump(row, col, -1, 1), Jump(row, col, -1, -1),
               Jump(row, col, 0, 1), Jump(row, col, 0, -1) >>
    IN  StepTargets(board, possibleMoves) \o JumpTargets(board, piece, captureDirections)

(***************************************************************************)
(* Move Validator (gameLogic.ts), for a destination on the board.          *)
(***************************************************************************)
isValidNormalMove(board, from, to, piece) ==
    LET rowDiff == to.row - from.row
        colDiff == to.col - from.col
        isForwardMove == \/ (piece.player = "red" /\ rowDiff > 0)
                         \/ (piece.player = "blue" /\ rowDiff < 0)
        midPiece == board[from.row + rowDiff \div 2][from.col + colDiff \div 2]
    IN  IF Abs(rowDiff) = 1 /\ Abs(colDiff) = 1
        THEN piece.crowned \/ isForwardMove
        ELSE IF Abs(rowDiff) = 2 /\ Abs(colDiff) = 2
        THEN (piece.crowned \/ isForwardMove) /\ midPiece # Null
             /\ midPiece.player # piece.player
        ELSE FALSE

isValidBagelMove(board, from, to, piece) ==
    IF isValidNormalMove(board, from, to, piece) THEN TRUE ELSE FALSE

isValidPancakeMove(board, from, to, piece) ==
    LET rowDiff == to.row - from.row
        colDiff == to.col - from.col
        midPiece == board[from.row][from.col + colDiff \div 2]
    IN  IF isValidNormalMove(board, from, to, piece) THEN TRUE
        ELSE IF Abs(rowDiff) = 0 /\ Abs(colDiff) = 1 /\ At(board, to) = Null THEN TRUE
        ELSE IF Abs(rowDiff) = 0 /\ Abs(colDiff) = 2
        THEN midPiece # Null /\ midPiece.player # piece.player
        ELSE FALSE

isValidMove(board, from, to, piece) ==
    IF At(board, to) # Null THEN FALSE
    ELSE IF to.row < 0 \/ to.row > 7 \/ to.col < 0 \/ to.col > 7 THEN FALSE
    ELSE CASE piece.type = "normal" -> isValidNormalMove(board, from, to, piece)
           [] piece.type = "bagel" -> isValidBagelMove(board, from, to, piece)
           [] piece.type = "pancake" -> isValidPancakeMove(board, from, to, piece)
           [] OTHER -> FALSE

(***************************************************************************)
(* Capture Resolver (gameLogic.ts).                                        *)
(***************************************************************************)
NoCapture == [capturedPiece |-> Null, capturedSquare |-> Null]

\* Mutant: a piece of the mover's own side on the midpoint is captured too.
handleCaptureAnyOwner(board, from, to, piece) ==
    LET rowDiff == to.row - from.row
        colDiff == to.col - from.col
        absRowDiff == Abs(rowDiff)
        absColDiff == Abs(colDiff)
        midRow == from.row + Sign(rowDiff) * (IF absRowDiff > 0 THEN 1 ELSE 0)
        midCol == from.col + Sign(colDiff) * 1
        capturedPiece == board[midRow][midCol]
    IN  IF \/ (absRowDiff = 2 /\ absColDiff = 2)
           \/ (piece.type = "pancake" /\ absRowDiff = 0 /\ absColDiff = 2)
        THEN IF capturedPiece # Null
             THEN [capturedPiece |-> capturedPiece,
                   capturedSquare |-> Square(midRow, midCol)]
             ELSE NoCapture
        ELSE NoCapture

\* Mutant: only the diagonal jump is a capture.
handleCaptureDiagonalOnly(board, from, to, piece) ==
    LET rowDiff == to.row - from.row
        colDiff == to.col - from.col
        absRowDiff == Abs(rowDiff)
        absColDiff == Abs(colDiff)
        midRow == from.row + Sign(rowDiff) * (IF absRowDiff > 0 THEN 1 ELSE 0)
        midCol == from.col + Sign(colDiff) * 1
        capturedPiece == board[midRow][midCol]
    IN  IF absRowDiff = 2 /\ absColDiff = 2
        THEN IF capturedPiece # Null /\ capturedPiece.player # piece.player
             THEN [capturedPiece |-> capturedPiece,
                   capturedSquare |-> Square(midRow, midCol)]
             ELSE NoCapture
        ELSE NoCapture

handleCapture(board, from, to, piece) ==
    LET rowDiff == to.row - from.row
        colDiff == to.col - from.col
        absRowDiff == Abs(rowDiff)
        absColDiff == Abs(colDiff)
        midRow == from.row + Sign(rowDiff) * (IF absRowDiff > 0 THEN 1 ELSE 0)
        midCol == from.col + Sign(colDiff) * 1
        capturedPiece == board[midRow][midCol]
    IN  IF \/ (absRowDiff = 2 /\ absColDiff = 2)
           \/ (piece.type = "pancake" /\ absRowDiff = 0 /\ absColDiff = 2)
        THEN IF capturedPiece # Null /\ capturedPiece.player # piece.player
             THEN [capturedPiece |-> capturedPiece,
                   capturedSquare |-> Square(midRow, midCol)]
             ELSE NoCapture
        ELSE NoCapture

(***************************************************************************)
(* Win Evaluator (gameLogic.ts).                                           *)
(***************************************************************************)
WinResult(over, winner) == [gameOver |-> over, winner |-> winner]

ScanMoves(board, piece) ==
    CASE piece.type = "normal" -> getNormalMoves(board, piece)
      [] piece.type = "bagel" -> getBagelMoves(board, piece, << >>)
      [] piece.type = "pancake" -> getPancakeMoves(board, piece)
      [] OTHER -> << >>

RECURSIVE ScanBoard(_, _, _, _)
\* The row-major scan of the board from cell k, with its early exit.
ScanBoard(board, k, redHasMoves, blueHasMoves) ==
    IF k = BoardSize * BoardSize
    THEN IF ~redHasMoves THEN WinResult(TRUE, "blue")
         ELSE IF ~blueHasMoves THEN WinResult(TRUE, "red")
         ELSE WinResult(FALSE, "null")
    ELSE LET piece == board[k \div BoardSize][k % BoardSize]
         IN  IF piece = Null THEN ScanBoard(board, k + 1, redHasMoves, blueHasMoves)
             ELSE LET has == Len(ScanMoves(board, piece)) > 0
                      red == redHasMoves \/ (piece.player = "red" /\ has)
                      blue == blueHasMoves \/ (piece.player = "blue" /\ has)
                  IN  IF red /\ blue THEN WinResult(FALSE, "null")
                      ELSE ScanBoard(board, k + 1, red, blue)

\* Mutant: only the piece counts end the game.
checkWinConditionCountsOnly(board, pieceCounts) ==
    IF pieceCounts.red = 0 THEN WinResult(TRUE, "blue")
    ELSE IF pieceCounts.blue = 0 THEN WinResult(TRUE, "red")
    ELSE WinResult(FALSE, "null")

checkWinCondition(board, pieceCounts) ==
    IF pieceCounts.red = 0 THEN WinResult(TRUE, "blue")
    ELSE IF pieceCounts.blue = 0 THEN WinResult(TRUE, "red")
    ELSE ScanBoard(board, 0, FALSE, FALSE)

(***************************************************************************)
(* Game State Machine (GameContext.tsx, GameProvider).                     *)
(***************************************************************************)
VARIABLES
    gameState,        \* useState<GameState>
    selectedPiece,    \* useState<Piece | null>
    validMoves,       \* useState<Square[]>
    pieceSelections,  \* useState<{red, blue: PieceSelection[]}>
    lastOp,           \* history: the command handled last and whether it wrote state
    calls,            \* history: the commands counted against MaxCalls
    relay             \* the server: the clients Set and each socket's readyState

vars == << gameState, selectedPiece, validMoves, pieceSelections, lastOp, calls, relay >>

\* The sockets the WebSocket server can be handed, none connected yet;
\* closeHandled is history: the sockets whose close handler has run.
Sockets == 1 .. MaxSockets

RelayInitial ==
    [clients |-> {},
     readyState |-> [ws \in Sockets |-> "NONE"],
     closeHandled |-> {}]

Op(name, ok) == [op |-> name, ok |-> ok]

\* Inputs the callers draw from.
ToggleTypes == {"normal"}
PlaceRoster ==
    { Piece("red-normal-0", "normal", "red", FALSE, Square(0, 0)),
      Piece("blue-pancake-0", "pancake", "blue", FALSE, Square(0, 0)) }
PlaceSquares == { Square(5, 2), Square(6, 1) }

InitialSelections ==
    << [type |-> "normal", count |-> 0, max |-> MAX_PIECE_COUNTS.normal],
       [type |-> "bagel", count |-> 0, max |-> MAX_PIECE_COUNTS.bagel],
       [type |-> "pancake", count |-> 0, max |-> MAX_PIECE_COUNTS.pancake] >>

RECURSIVE SumCounts(_, _)
\* selections.reduce((sum, selection) => sum + selection.count, 0), from index i
SumCounts(selections, i) ==
    IF i > Len(selections) THEN 0
    ELSE selections[i].count + SumCounts(selections, i + 1)

Total(selections) == SumCounts(selections, 1)

InitialGameState ==
    [phase |-> "menu",
     currentPlayer |-> "red",
     board |-> initializeEmptyBoard,
     scores |-> [red |-> 0, blue |-> 0],
     capturedPieces |-> [red |-> << >>, blue |-> << >>],
     moveHistory |-> << >>,
     pieceCounts |-> [red |-> 0, blue |-> 0],
     gameActive |-> FALSE]

Init ==
    /\ gameState = InitialGameState
    /\ selectedPiece = Null
    /\ validMoves = << >>
    /\ pieceSelections = [p \in PlayerColor |-> InitialSelections]
    /\ lastOp = Op("init", TRUE)
    /\ calls = 0
    /\ relay = RelayInitial

\* Mutant: a variant without a rule of its own moves as a normal piece.
getValidMovesForPieceAsNormal(piece) ==
    IF piece = Null THEN << >>
    ELSE CASE piece.type = "bagel" ->
                getBagelMoves(gameState.board, piece, gameState.moveHistory)
           [] piece.type = "pancake" -> getPancakeMoves(gameState.board, piece)
           [] OTHER -> getNormalMoves(gameState.board, piece)

getValidMovesForPiece(piece) ==
    IF piece = Null THEN << >>
    ELSE CASE piece.type = "normal" -> getNormalMoves(gameState.board, piece)
           [] piece.type = "bagel" ->
                getBagelMoves(gameState.board, piece, gameState.moveHistory)
           [] piece.type = "pancake" -> getPancakeMoves(gameState.board, piece)
           [] OTHER -> << >>

getInitialPlacementSquares(player) ==
    { s \in Squares :
        /\ s.row >= (IF player = "red" THEN 0 ELSE 5)
        /\ s.row < (IF player = "red" THEN 3 ELSE 8)
        /\ (s.row + s.col) % 2 # 0 }

startGame ==
    /\ calls < MaxCalls
    /\ gameState' = [gameState EXCEPT
            !.phase = "draft",
            !.currentPlayer = "red",
            !.scores = [red |-> 0, blue |-> 0],
            !.capturedPieces = [red |-> << >>, blue |-> << >>],
            !.moveHistory = << >>,
            !.pieceCounts = [red |-> 0, blue |-> 0],
            !.gameActive = FALSE]
    /\ pieceSelections' = [p \in PlayerColor |-> InitialSelections]
    /\ lastOp' = Op("startGame", TRUE)
    /\ calls' = calls + 1
    /\ UNCHANGED << selectedPiece, validMoves >>

resetGame ==
    /\ gameState' = InitialGameState
    /\ selectedPiece' = Null
    /\ validMoves' = << >>
    /\ lastOp' = Op("resetGame", TRUE)
    /\ UNCHANGED << pieceSelections, calls >>

\* Mutant: only red's total is checked.
finishDraftRedOnly ==
    LET redTotal == Total(pieceSelections.red)
        blueTotal == Total(pieceSelections.blue)
    IN  /\ IF redTotal # TOTAL_PIECES_PER_PLAYER
           THEN /\ lastOp' = Op("finishDraft", FALSE)
                /\ UNCHANGED gameState
           ELSE /\ gameState' = [gameState EXCEPT
                        !.phase = "placement",
                        !.board = initializeEmptyBoard,
                        !.gameActive = TRUE,
                        !.pieceCounts = [red |-> redTotal, blue |-> blueTotal]]
                /\ lastOp' = Op("finishDraft", TRUE)
        /\ UNCHANGED << selectedPiece, validMoves, pieceSelections, calls >>

finishDraft ==
    LET redTotal == Total(pieceSelections.red)
        blueTotal == Total(pieceSelections.blue)
    IN  /\ IF redTotal # TOTAL_PIECES_PER_PLAYER \/ blueTotal # TOTAL_PIECES_PER_PLAYER
           THEN /\ lastOp' = Op("finishDraft", FALSE)
                /\ UNCHANGED gameState
           ELSE /\ gameState' = [gameState EXCEPT
                        !.phase = "placement",
                        !.board = initializeEmptyBoard,
                        !.gameActive = TRUE,
                        !.pieceCounts = [red |-> redTotal, blue |-> blueTotal]]
                /\ lastOp' = Op("finishDraft", TRUE)
        /\ UNCHANGED << selectedPiece, validMoves, pieceSelections, calls >>

placePiece(piece, row, col) ==
    IF gameState.phase # "placement"
    THEN /\ lastOp' = Op("placePiece", FALSE)
         /\ UNCHANGED << gameState, selectedPiece, validMoves, pieceSelections, calls >>
    ELSE /\ calls < MaxCalls
         /\ gameState' = [gameState EXCEPT
                !.board[row][col] = [piece EXCEPT !.position = Square(row, col)]]
         /\ lastOp' = Op("placePiece", TRUE)
         /\ calls' = calls + 1
         /\ UNCHANGED << selectedPiece, validMoves, pieceSelections >>

finishPlacement ==
    /\ gameState' = [gameState EXCEPT !.phase = "play", !.currentPlayer = "red"]
    /\ lastOp' = Op("finishPlacement", TRUE)
    /\ UNCHANGED << selectedPiece, validMoves, pieceSelections, calls >>

\* Mutant: the ownership test is dropped from the guard.
selectPieceAnyOwner(piece) ==
    IF ~gameState.gameActive
    THEN /\ lastOp' = Op("selectPiece", FALSE)
         /\ UNCHANGED << gameState, selectedPiece, validMoves, pieceSelections, calls >>
    ELSE /\ selectedPiece' = piece
         /\ validMoves' = getValidMovesForPiece(piece)
         /\ lastOp' = Op("selectPiece", TRUE)
         /\ UNCHANGED << gameState, pieceSelections, calls >>

selectPiece(piece) ==
    IF piece.player # gameState.currentPlayer \/ ~gameState.gameActive
    THEN /\ lastOp' = Op("selectPiece", FALSE)
         /\ UNCHANGED << gameState, selectedPiece, validMoves, pieceSelections, calls >>
    ELSE /\ selectedPiece' = piece
         /\ validMoves' = getValidMovesForPiece(piece)
         /\ lastOp' = Op("selectPiece", TRUE)
         /\ UNCHANGED << gameState, pieceSelections, calls >>

deselectPiece ==
    /\ selectedPiece' = Null
    /\ validMoves' = << >>
    /\ lastOp' = Op("deselectPiece", TRUE)
    /\ UNCHANGED << gameState, pieceSelections, calls >>

\* movePiece, lines 314-322: the capture is credited to the active player.
NewScores(scores, currentPlayer, capturedPiece) ==
    IF capturedPiece # Null
    THEN [scores EXCEPT ![currentPlayer] = @ + 1]
    ELSE scores

NewCapturedPieces(capturedPieces, currentPlayer, capturedPiece) ==
    IF capturedPiece # Null
    THEN [capturedPieces EXCEPT ![currentPlayer] = Append(@, capturedPiece)]
    ELSE capturedPieces

\* movePiece, lines 327-331: the selected piece at its destination, crowned
\* when the active player's far row is reached.
MovedPiece(piece, currentPlayer, row, col) ==
    [piece EXCEPT
        !.position = Square(row, col),
        !.crowned = IF \/ (currentPlayer = "red" /\ row = 7)
                       \/ (currentPlayer = "blue" /\ row = 0)
                    THEN TRUE ELSE @]

\* movePiece, lines 304, 325 and 333: the only two board writes of a move.
NewBoard(board, pieceRow, pieceCol, row, col, movedPiece) ==
    [board EXCEPT ![pieceRow][pieceCol] = Null, ![row][col] = movedPiece]

\* Mutant: the capture is taken from the capturing player's own count.
NewPieceCountsOwnCount(pieceCounts, currentPlayer, capturedPiece) ==
    [red |-> pieceCounts.red
               - (IF currentPlayer = "red" /\ capturedPiece # Null THEN 1 ELSE 0),
     blue |-> pieceCounts.blue
               - (IF currentPlayer = "blue" /\ capturedPiece # Null THEN 1 ELSE 0)]

NewPieceCounts(pieceCounts, currentPlayer, capturedPiece) ==
    [red |-> pieceCounts.red
               - (IF currentPlayer = "blue" /\ capturedPiece # Null THEN 1 ELSE 0),
     blue |-> pieceCounts.blue
               - (IF currentPlayer = "red" /\ capturedPiece # Null THEN 1 ELSE 0)]

\* Mutant: the history holds the last move only.
MoveResultLastOnly(row, col) ==
    LET board == gameState.board
        currentPlayer == gameState.currentPlayer
        pieceRow == selectedPiece.position.row
        pieceCol == selectedPiece.position.col
        captureResult == handleCapture(board, Square(pieceRow, pieceCol),
                                       Square(row, col), selectedPiece)
        newBoard == NewBoard(board, pieceRow, pieceCol, row, col,
                             MovedPiece(selectedPiece, currentPlayer, row, col))
        newMoveHistory == << [piece |-> selectedPiece,
                              from |-> Square(pieceRow, pieceCol),
                              to |-> Square(row, col),
                              captured |-> captureResult.capturedPiece] >>
        newPieceCounts == NewPieceCounts(gameState.pieceCounts, currentPlayer,
                                         captureResult.capturedPiece)
        winResult == checkWinCondition(newBoard, newPieceCounts)
        newPhase == IF winResult.gameOver THEN "gameOver" ELSE gameState.phase
        nextPlayer == IF currentPlayer = "red" THEN "blue" ELSE "red"
    IN  [gameState EXCEPT
            !.board = newBoard,
            !.currentPlayer = nextPlayer,
            !.scores = NewScores(gameState.scores, currentPlayer,
                                 captureResult.capturedPiece),
            !.capturedPieces = NewCapturedPieces(gameState.capturedPieces, currentPlayer,
                                                 captureResult.capturedPiece),
            !.moveHistory = newMoveHistory,
            !.pieceCounts = newPieceCounts,
            !.phase = newPhase]

\* The state movePiece(row, col) commits once its guards have passed.
MoveResult(row, col) ==
    LET board == gameState.board
        currentPlayer == gameState.currentPlayer
        pieceRow == selectedPiece.position.row
        pieceCol == selectedPiece.position.col
        captureResult == handleCapture(board, Square(pieceRow, pieceCol),
                                       Square(row, col), selectedPiece)
        newBoard == NewBoard(board, pieceRow, pieceCol, row, col,
                             MovedPiece(selectedPiece, currentPlayer, row, col))
        newMoveHistory == Append(gameState.moveHistory,
                                 [piece |-> selectedPiece,
                                  from |-> Square(pieceRow, pieceCol),
                                  to |-> Square(row, col),
                                  captured |-> captureResult.capturedPiece])
        newPieceCounts == NewPieceCounts(gameState.pieceCounts, currentPlayer,
                                         captureResult.capturedPiece)
        winResult == checkWinCondition(newBoard, newPieceCounts)
        newPhase == IF winResult.gameOver THEN "gameOver" ELSE gameState.phase
        nextPlayer == IF currentPlayer = "red" THEN "blue" ELSE "red"
    IN  [gameState EXCEPT
            !.board = newBoard,
            !.currentPlayer = nextPlayer,
            !.scores = NewScores(gameState.scores, currentPlayer,
                                 captureResult.capturedPiece),
            !.capturedPieces = NewCapturedPieces(gameState.capturedPieces, currentPlayer,
                                                 captureResult.capturedPiece),
            !.moveHistory = newMoveHistory,
            !.pieceCounts = newPieceCounts,
            !.phase = newPhase]

movePiece(row, col) ==
    IF \/ selectedPiece = Null
       \/ ~gameState.gameActive
       \/ ~Contains(validMoves, Square(row, col))
    THEN /\ lastOp' = Op("movePiece", FALSE)
         /\ UNCHANGED << gameState, selectedPiece, validMoves, pieceSelections, calls >>
    ELSE /\ calls < MaxCalls
         /\ gameState' = MoveResult(row, col)
         /\ selectedPiece' = Null
         /\ validMoves' = << >>
         /\ lastOp' = Op("movePiece", TRUE)
         /\ calls' = calls + 1
         /\ UNCHANGED pieceSelections

SelectionIndex(selections, pieceType) ==
    CHOOSE i \in 1 .. Len(selections) : selections[i].type = pieceType

\* Mutant: the player's total is not checked.
togglePieceSelectionNoTotal(player, pieceType) ==
    LET selections == pieceSelections[player]
        selectionIndex == SelectionIndex(selections, pieceType)
        entry == selections[selectionIndex]
    IN  /\ pieceSelections' =
              IF entry.count < entry.max
              THEN [pieceSelections EXCEPT ![player][selectionIndex].count = @ + 1]
              ELSE IF entry.count > 0
              THEN [pieceSelections EXCEPT ![player][selectionIndex].count = @ - 1]
              ELSE pieceSelections
        /\ lastOp' = Op("togglePieceSelection", TRUE)
        /\ UNCHANGED << gameState, selectedPiece, validMoves, calls >>

togglePieceSelection(player, pieceType) ==
    LET selections == pieceSelections[player]
        selectionIndex == SelectionIndex(selections, pieceType)
        currentTotal == Total(selections)
        entry == selections[selectionIndex]
    IN  /\ pieceSelections' =
              IF entry.count < entry.max /\ currentTotal < TOTAL_PIECES_PER_PLAYER
              THEN [pieceSelections EXCEPT ![player][selectionIndex].count = @ + 1]
              ELSE IF entry.count > 0
              THEN [pieceSelections EXCEPT ![player][selectionIndex].count = @ - 1]
              ELSE pieceSelections
        /\ lastOp' = Op("togglePieceSelection", TRUE)
        /\ UNCHANGED << gameState, selectedPiece, validMoves, calls >>

\* The pieces a board click can pass to selectPiece: those on the board.
BoardPieces == { At(gameState.board, s) : s \in Squares } \ {Null}

\* The destinations a board click can pass to movePiece: the highlighted
\* squares and, for a rejected click, the squares pieces are placed on.
MoveTargets == { validMoves[i] : i \in 1 .. Len(validMoves) } \cup PlaceSquares

\* The draft screen is shown in the Draft phase (Home.tsx); red drafts its
\* roster first, then blue.
DraftTurn(player) ==
    /\ gameState.phase = "draft"
    /\ player = "blue" => Total(pieceSelections.red) = TOTAL_PIECES_PER_PLAYER

Next ==
    \/ startGame /\ UNCHANGED relay
    \/ resetGame /\ UNCHANGED relay
    \/ finishDraft /\ UNCHANGED relay
    \/ \E piece \in PlaceRoster, s \in PlaceSquares :
            placePiece(piece, s.row, s.col) /\ UNCHANGED relay
    \/ finishPlacement /\ UNCHANGED relay
    \/ \E piece \in BoardPieces : selectPiece(piece) /\ UNCHANGED relay
    \/ deselectPiece /\ UNCHANGED relay
    \/ \E s \in MoveTargets : movePiece(s.row, s.col) /\ UNCHANGED relay
    \/ \E player \in PlayerColor, pieceType \in ToggleTypes :
            DraftTurn(player) /\ togglePieceSelection(player, pieceType)
                /\ UNCHANGED relay

Spec == Init /\ [][Next]_vars

(***************************************************************************)
(* AI Player (aiService.ts).  A Math.random pick is a choice among the     *)
(* candidates, so selectMove gives the set of moves it can return.         *)
(***************************************************************************)
AIDifficulty == {"easy", "medium", "hard"}
playerColor == "blue"

\* The squares of the board in the order of the nested row and column loops.
ScanOrder ==
    [k \in 1 .. (BoardSize * BoardSize) |->
        Square((k - 1) \div BoardSize, (k - 1) % BoardSize)]

\* getValidMovesForPiece(piece, board) of aiService.ts
aiGetValidMovesForPiece(piece, board) ==
    SelectSeq(ScanOrder, LAMBDA targetSquare :
        /\ ~(At(board, targetSquare) # Null
             /\ At(board, targetSquare).player = piece.player)
        /\ isValidMove(board, piece.position, targetSquare, piece))

getAIPieces(state) ==
    LET held == SelectSeq(ScanOrder, LAMBDA s :
                    At(state.board, s) # Null /\ At(state.board, s).player = playerColor)
    IN  [i \in 1 .. Len(held) |-> At(state.board, held[i])]

RECURSIVE allPossibleMoves(_, _, _)
\* The (piece, move) pairs of the pieces from index i on, piece by piece.
allPossibleMoves(aiPieces, i, board) ==
    IF i > Len(aiPieces) THEN << >>
    ELSE LET moves == aiGetValidMovesForPiece(aiPieces[i], board)
         IN  [j \in 1 .. Len(moves) |-> [piece |-> aiPieces[i], move |-> moves[j]]]
             \o allPossibleMoves(aiPieces, i + 1, board)

Elements(seq) == { seq[i] : i \in 1 .. Len(seq) }

IsCapturingMove(moveObj) == Abs(moveObj.move.col - moveObj.piece.position.col) = 2

getPieceValue(type) ==
    CASE type = "flying disk" -> 5
      [] type = "pancake" -> 4
      [] type = "bomb" -> 3
      [] type = "vinyl" -> 2
      [] type = "bagel" -> 1
      [] OTHER -> 0

\* Mutant: the first capture found is taken, whatever its piece.
BestCaptureFirst(capturingMoves) ==
    capturingMoves[1]

\* capturingMoves.sort(...)[0]: the first capture of least piece value.

BestCapture(capturingMoves) ==
    LET least == CHOOSE v \in { getPieceValue(m.piece.type) : m \in Elements(capturingMoves) } :
                    \A m \in Elements(capturingMoves) : v <= getPieceValue(m.piece.type)
    IN  SelectSeq(capturingMoves, LAMBDA m : getPieceValue(m.piece.type) = least)[1]

\* Mutant: without a capture the Hard tier picks among all the moves.
selectMoveHardAmongAll(difficulty, possibleMoves) ==
    LET capturingMoves == SelectSeq(possibleMoves, IsCapturingMove)
    IN  CASE difficulty = "easy" -> Elements(possibleMoves)
          [] difficulty = "medium" ->
                IF Len(capturingMoves) > 0 THEN Elements(capturingMoves)
                ELSE Elements(possibleMoves)
          [] difficulty = "hard" ->
                IF Len(capturingMoves) > 0 THEN { BestCapture(capturingMoves) }
                ELSE Elements(possibleMoves)

\* Mutant: the Medium tier picks among all the moves.
selectMoveAmongAll(difficulty, possibleMoves) ==
    LET capturingMoves == SelectSeq(possibleMoves, IsCapturingMove)
        forwardMoves == SelectSeq(possibleMoves, LAMBDA m :
                            ~m.piece.crowned /\ m.move.row < m.piece.position.row)
        crowningMoves == SelectSeq(forwardMoves, LAMBDA m : m.move.row = 0)
        centerMoves == SelectSeq(forwardMoves, LAMBDA m : m.move.col >= 2 /\ m.move.col <= 5)
    IN  CASE difficulty = "easy" -> Elements(possibleMoves)
          [] difficulty = "medium" -> Elements(possibleMoves)
          [] difficulty = "hard" ->
                IF Len(capturingMoves) > 0 THEN { BestCapture(capturingMoves) }
                ELSE IF Len(forwardMoves) > 0
                THEN IF Len(crowningMoves) > 0 THEN { crowningMoves[1] }
                     ELSE IF Len(centerMoves) > 0 THEN { centerMoves[1] }
                     ELSE { forwardMoves[1] }
                ELSE Elements(possibleMoves)

selectMove(difficulty, possibleMoves) ==
    LET capturingMoves == SelectSeq(possibleMoves, IsCapturingMove)
        forwardMoves == SelectSeq(possibleMoves, LAMBDA m :
                            ~m.piece.crowned /\ m.move.row < m.piece.position.row)
        crowningMoves == SelectSeq(forwardMoves, LAMBDA m : m.move.row = 0)
        centerMoves == SelectSeq(forwardMoves, LAMBDA m : m.move.col >= 2 /\ m.move.col <= 5)
    IN  CASE difficulty = "easy" -> Elements(possibleMoves)
          [] difficulty = "medium" ->
                IF Len(capturingMoves) > 0 THEN Elements(capturingMoves)
                ELSE Elements(possibleMoves)
          [] difficulty = "hard" ->
                IF Len(capturingMoves) > 0 THEN { BestCapture(capturingMoves) }
                ELSE IF Len(forwardMoves) > 0
                THEN IF Len(crowningMoves) > 0 THEN { crowningMoves[1] }
                     ELSE IF Len(centerMoves) > 0 THEN { centerMoves[1] }
                     ELSE { forwardMoves[1] }
                ELSE Elements(possibleMoves)

\* Mutant: the turn is not checked.
NextMoveResultsAnyTurn(difficulty, state) ==
    LET aiPieces == getAIPieces(state)
        possibleMoves == allPossibleMoves(aiPieces, 1, state.board)
    IN  IF Len(aiPieces) = 0 THEN { Null }
        ELSE IF Len(possibleMoves) = 0 THEN { Null }
        ELSE { [piece |-> m.piece, from |-> m.piece.position, to |-> m.move,
                captured |-> Null] : m \in selectMove(difficulty, possibleMoves) }

\* The values getNextMove(gameState) can resolve to.
NextMoveResults(difficulty, state) ==
    LET aiPieces == getAIPieces(state)
        possibleMoves == allPossibleMoves(aiPieces, 1, state.board)
    IN  IF state.currentPlayer # playerColor THEN { Null }
        ELSE IF Len(aiPieces) = 0 THEN { Null }
        ELSE IF Len(possibleMoves) = 0 THEN { Null }
        ELSE { [piece |-> m.piece, from |-> m.piece.position, to |-> m.move,
                captured |-> Null] : m \in selectMove(difficulty, possibleMoves) }

\* The record of a getNextMove call: ok tells a move from null.
AIOp(difficulty, result) ==
    [op |-> "getNextMove", ok |-> result # Null, difficulty |-> difficulty,
     result |-> result]

getNextMove(difficulty) ==
    /\ \E result \in NextMoveResults(difficulty, gameState) :
            lastOp' = AIOp(difficulty, result)
    /\ UNCHANGED << gameState, selectedPiece, validMoves, pieceSelections, calls >>

(***************************************************************************)
(* Play from a drawn position: the boards placePiece can build around the  *)
(* square (1,6), and an endgame in which each side has one piece left.     *)
(***************************************************************************)
Cell(kind, player, s) ==
    Piece(player \o "-" \o kind \o "-" \o ToString(s.col), kind, player, FALSE, s)

\* What each drawn square can hold.
SubjectKinds ==
    { << kind, player >> : kind \in {"normal", "bagel", "pancake"}, player \in PlayerColor }
    \cup { << kind, "blue" >> : kind \in {"bomb", "vinyl", "flying disk"} }
    \cup { << "bomb", "red" >> }
PlayCells ==
    [ a : {Null, Cell("normal", "red", Square(0, 5))},
      b : {Null, Cell("normal", "red", Square(1, 5)), Cell("normal", "blue", Square(1, 5))},
      c : { Cell(k[1], k[2], Square(1, 6)) : k \in SubjectKinds },
      d : {Null, Cell("bagel", "blue", Square(2, 7)), Cell("bagel", "red", Square(2, 7))} ]

PlayBoard(cells) ==
    [initializeEmptyBoard EXCEPT
        ![0][5] = cells.a, ![1][5] = cells.b, ![1][6] = cells.c, ![2][7] = cells.d]

\* After the draft of twelve normal pieces a side and finishPlacement.
DraftedSelections ==
    [p \in PlayerColor |->
        [InitialSelections EXCEPT ![1].count = TOTAL_PIECES_PER_PLAYER]]

OpeningState(board) ==
    [InitialGameState EXCEPT
        !.phase = "play",
        !.board = board,
        !.pieceCounts = [red |-> TOTAL_PIECES_PER_PLAYER, blue |-> TOTAL_PIECES_PER_PLAYER],
        !.gameActive = TRUE]

\* The endgame: red's pancake has jumped the blue piece beside it to and fro,
\* and blue's pancake the red piece beside it, eleven times each in turn (a
\* captured piece stays on the board); then red's normal piece has stepped.
RedJumper(col) == Piece("red-pancake-0", "pancake", "red", FALSE, Square(3, col))
BlueJumper(col) == Piece("blue-pancake-0", "pancake", "blue", FALSE, Square(5, col))
BlueJumped == Piece("blue-normal-0", "normal", "blue", FALSE, Square(3, 1))
RedJumped == Piece("red-normal-0", "normal", "red", FALSE, Square(5, 1))
RedStepper(s) == Piece("red-normal-1", "normal", "red", FALSE, s)

JumpCount == TOTAL_PIECES_PER_PLAYER - 1

Move(piece, to, captured) ==
    [piece |-> piece, from |-> piece.position, to |-> to, captured |-> captured]

\* Move i of the exchange: red jumps on the odd moves, blue on the even ones.
ExchangeMove(i) ==
    LET col == IF ((i - 1) \div 2) % 2 = 0 THEN 0 ELSE 2
    IN  IF i % 2 = 1
        THEN Move(RedJumper(col), Square(3, 2 - col), BlueJumped)
        ELSE Move(BlueJumper(col), Square(5, 2 - col), RedJumped)

EndgameBoard ==
    [initializeEmptyBoard EXCEPT
        ![3][2] = RedJumper(2), ![3][1] = BlueJumped,
        ![5][2] = BlueJumper(2), ![5][1] = RedJumped,
        ![1][2] = RedStepper(Square(1, 2))]

EndgameState ==
    [phase |-> "play",
     currentPlayer |-> "blue",
     board |-> EndgameBoard,
     scores |-> [red |-> JumpCount, blue |-> JumpCount],
     capturedPieces |-> [red |-> [i \in 1 .. JumpCount |-> BlueJumped],
                         blue |-> [i \in 1 .. JumpCount |-> RedJumped]],
     moveHistory |-> [i \in 1 .. (2 * JumpCount) |-> ExchangeMove(i)]
                     \o << Move(RedStepper(Square(0, 1)), Square(1, 2), Null) >>,
     pieceCounts |-> [red |-> 1, blue |-> 1],
     gameActive |-> TRUE]

\* The endgame one move later: blue's pancake has jumped red's piece once
\* more, red's count is 0 and the game is over.
DecidedState ==
    [EndgameState EXCEPT
        !.phase = "gameOver",
        !.currentPlayer = "red",
        !.board = [EndgameBoard EXCEPT ![5][2] = Null, ![5][0] = BlueJumper(0)],
        !.scores = [red |-> JumpCount, blue |-> JumpCount + 1],
        !.capturedPieces = [red |-> EndgameState.capturedPieces.red,
                            blue |-> Append(EndgameState.capturedPieces.blue, RedJumped)],
        !.moveHistory = Append(EndgameState.moveHistory,
                               Move(BlueJumper(2), Square(5, 0), RedJumped)),
        !.pieceCounts = [red |-> 0, blue |-> 1]]

\* A corner: blue's pancake on (1,7) behind three red pieces, with a red piece
\* on (0,1) free to step.
CornerBoard ==
    [initializeEmptyBoard EXCEPT
        ![1][7] = Cell("pancake", "blue", Square(1, 7)),
        ![0][6] = Cell("pancake", "red", Square(0, 6)),
        ![1][6] = Cell("normal", "red", Square(1, 6)),
        ![1][5] = Cell("normal", "red", Square(1, 5)),
        ![0][1] = Cell("normal", "red", Square(0, 1))]

\* Two captures on offer: blue's pancake on (3,4) beside a red piece and
\* blue's normal piece on (5,2) behind another, with a red piece on (0,1) free
\* to step.
ExchangeBoard ==
    [initializeEmptyBoard EXCEPT
        ![3][4] = Cell("pancake", "blue", Square(3, 4)),
        ![3][5] = Cell("normal", "red", Square(3, 5)),
        ![5][2] = Cell("normal", "blue", Square(5, 2)),
        ![4][1] = Cell("normal", "red", Square(4, 1)),
        ![0][1] = Cell("normal", "red", Square(0, 1))]

PlayInit ==
    /\ \/ /\ \E cells \in PlayCells : gameState = OpeningState(PlayBoard(cells))
          /\ lastOp = Op("finishPlacement", TRUE)
       \/ /\ gameState = EndgameState
          /\ lastOp = Op("movePiece", TRUE)
    /\ selectedPiece = Null
    /\ validMoves = << >>
    /\ pieceSelections = DraftedSelections
    /\ calls = MaxCalls - MaxPlies
    /\ relay = RelayInitial

PlayNext ==
    \/ \E piece \in BoardPieces : selectPiece(piece) /\ UNCHANGED relay
    \/ deselectPiece /\ UNCHANGED relay
    \/ \E s \in MoveTargets : movePiece(s.row, s.col) /\ UNCHANGED relay
    \/ \E difficulty \in AIDifficulty : getNextMove(difficulty) /\ UNCHANGED relay

PlaySpec == PlayInit /\ [][PlayNext]_vars

\* No capture on offer: blue's pancake on (4,1) with red pieces on (3,2) and
\* behind it on (2,3), and a red piece on (0,1) free to step.
PriorityBoard ==
    [initializeEmptyBoard EXCEPT
        ![4][1] = Cell("pancake", "blue", Square(4, 1)),
        ![3][2] = Cell("normal", "red", Square(3, 2)),
        ![2][3] = Cell("normal", "red", Square(2, 3)),
        ![0][1] = Cell("normal", "red", Square(0, 1))]

\* Play against the AI from the corner, the two captures, the quiet position,
\* the endgame and the decided game.
AIPlayInit ==
    /\ \/ /\ gameState \in { OpeningState(CornerBoard), OpeningState(ExchangeBoard),
                             OpeningState(PriorityBoard) }
          /\ lastOp = Op("finishPlacement", TRUE)
       \/ /\ gameState \in { EndgameState, DecidedState }
          /\ lastOp = Op("movePiece", TRUE)
    /\ selectedPiece = Null
    /\ validMoves = << >>
    /\ pieceSelections = DraftedSelections
    /\ calls = MaxCalls - MaxPlies
    /\ relay = RelayInitial

AIPlaySpec == AIPlayInit /\ [][PlayNext]_vars

(***************************************************************************)
(* The draft on its own: every variant of the draft screen can be toggled. *)
(***************************************************************************)
DraftTypes == {"normal", "bagel", "pancake"}

\* The state startGame leaves from the initial state.
DraftInit ==
    /\ gameState = [InitialGameState EXCEPT !.phase = "draft"]
    /\ selectedPiece = Null
    /\ validMoves = << >>
    /\ pieceSelections = [p \in PlayerColor |-> InitialSelections]
    /\ lastOp = Op("startGame", TRUE)
    /\ calls = 0
    /\ relay = RelayInitial

DraftNext ==
    \/ \E player \in PlayerColor, pieceType \in DraftTypes :
            DraftTurn(player) /\ togglePieceSelection(player, pieceType)
                /\ UNCHANGED relay
    \/ finishDraft /\ UNCHANGED relay

DraftSpec == DraftInit /\ [][DraftNext]_vars

(***************************************************************************)
(* Direct calls of the exported functions, one on each drawn board.        *)
(***************************************************************************)
\* Destinations on the board and up to Margin squares beyond its edge.
Destinations ==
    { Square(r, c) : r \in (0 - Margin) .. (BoardSize - 1 + Margin),
                     c \in (0 - Margin) .. (BoardSize - 1 + Margin) }

\* The outcome of a call isValidMove(board, from, to, piece).  Line 10 reads
\* board[to.row][to.col] before the bounds are tested: outside the rows
\* board[to.row] is undefined and reading [to.col] of it throws a TypeError;
\* within the rows and outside the columns the read gives undefined, which
\* is not null, and the function returns false.
isValidMoveOutcome(board, from, to, piece) ==
    IF to.row \notin Idx THEN "TypeError"
    ELSE IF to.col \notin Idx THEN "false"
    ELSE IF isValidMove(board, from, to, piece) THEN "true" ELSE "false"

validateMove(piece, to) ==
    /\ calls < MaxCalls
    /\ lastOp' = [op |-> "isValidMove", ok |-> FALSE, piece |-> piece, to |-> to,
                  outcome |-> isValidMoveOutcome(gameState.board, piece.position, to, piece)]
    /\ calls' = calls + 1
    /\ UNCHANGED << gameState, selectedPiece, validMoves, pieceSelections >>

CallInit ==
    /\ \E cells \in PlayCells : gameState = OpeningState(PlayBoard(cells))
    /\ lastOp = Op("finishPlacement", TRUE)
    /\ selectedPiece = Null
    /\ validMoves = << >>
    /\ pieceSelections = DraftedSelections
    /\ calls = MaxCalls - 1
    /\ relay = RelayInitial

CallNext ==
    \/ \E piece \in BoardPieces, to \in Destinations :
            validateMove(piece, to) /\ UNCHANGED relay

CallSpec == CallInit /\ [][CallNext]_vars

(***************************************************************************)
(* The AI's setup calls (aiService.ts): its draft and its placement.       *)
(***************************************************************************)
Selection(type, count) == [type |-> type, count |-> count]

\* BaseAI.getDraftSelections, which EasyAI and MediumAI inherit.
BaseDraftSelections(difficulty) ==
    << Selection("normal", 6), Selection("bagel", 2), Selection("vinyl", 2) >>
    \o (IF difficulty = "easy"
        THEN << Selection("bomb", 1), Selection("pancake", 4) >>
        ELSE IF difficulty = "medium"
        THEN << Selection("bomb", 2), Selection("pancake", 2), Selection("flying disk", 1) >>
        ELSE << Selection("bomb", 1), Selection("pancake", 1), Selection("flying disk", 2) >>)

\* HardAI.getDraftSelections
HardDraftSelections ==
    << Selection("normal", 5), Selection("bagel", 1), Selection("vinyl", 1),
       Selection("bomb", 1), Selection("pancake", 2), Selection("flying disk", 2) >>

\* The list AIFactory.createAI(difficulty).getDraftSelections(gameState) gives.
DraftSelectionsOf(difficulty) ==
    IF difficulty = "hard" THEN HardDraftSelections ELSE BaseDraftSelections(difficulty)

getDraftSelections(difficulty) ==
    /\ calls < MaxCalls
    /\ lastOp' = [op |-> "getDraftSelections", ok |-> FALSE, difficulty |-> difficulty,
                  result |-> DraftSelectionsOf(difficulty)]
    /\ calls' = calls + 1
    /\ UNCHANGED << gameState, selectedPiece, validMoves, pieceSelections >>

\* generatePiecesFromSelection (GameContext.tsx) for the AI's colour: the
\* pieces of a selection list, variant by variant, none placed yet.
RECURSIVE generatePiecesFromSelection(_, _)
generatePiecesFromSelection(selections, k) ==
    IF k > Len(selections) THEN << >>
    ELSE [i \in 1 .. selections[k].count |->
            Piece(playerColor \o "-" \o selections[k].type \o "-" \o ToString(i - 1),
                  selections[k].type, playerColor, FALSE, Square(0, 0))]
         \o generatePiecesFromSelection(selections, k + 1)

\* The rosters the AI is handed: up to MaxOfType pieces of each variant, or
\* the roster the Hard tier drafts.
Rosters ==
    { [k \in 1 .. Len(HardDraftSelections) |->
            Selection(HardDraftSelections[k].type, counts[k])] :
        counts \in [1 .. Len(HardDraftSelections) -> 0 .. MaxOfType] }
    \cup { HardDraftSelections }

getValidPlacementSquares ==
    SelectSeq(ScanOrder, LAMBDA s : s.row >= 5 /\ s.row < 8 /\ (s.row + s.col) % 2 = 1)

centerSquares == SelectSeq(getValidPlacementSquares, LAMBDA sq : sq.col \in {2, 3, 4, 5})
edgeSquares == SelectSeq(getValidPlacementSquares, LAMBDA sq : sq.col \in {0, 1, 6, 7})
backRow == SelectSeq(getValidPlacementSquares, LAMBDA sq : sq.row = 7)
frontRowSquares == SelectSeq(getValidPlacementSquares, LAMBDA sq : sq.row = 5)

Decision(piece, position) == [piece |-> piece, position |-> position]

\* piecesToPlace.sort((a, b) => pieceValue(b.type) - pieceValue(a.type)): the
\* sort is stable, so pieces of one value keep their order.
SortByValue(pieces) ==
    LET OfValue(v) == SelectSeq(pieces, LAMBDA piece : getPieceValue(piece.type) = v)
    IN  OfValue(5) \o OfValue(4) \o OfValue(3) \o OfValue(2) \o OfValue(1) \o OfValue(0)

RECURSIVE BasePlace(_, _, _, _, _)
\* The loop of BaseAI.getPlacementDecisions from piece i on; squareIndex
\* counts from 0 as in the code.
BasePlace(piecesToPlace, i, currentSquares, squareIndex, decisions) ==
    IF i > Len(piecesToPlace) THEN decisions
    ELSE LET switch == squareIndex >= Len(currentSquares)
             squares == IF switch THEN edgeSquares ELSE currentSquares
             index == IF switch THEN 0 ELSE squareIndex
         IN  IF switch /\ Len(squares) = 0 THEN decisions
             ELSE BasePlace(piecesToPlace, i + 1, squares, index + 1,
                            Append(decisions, Decision(piecesToPlace[i], squares[index + 1])))

\* BaseAI.getPlacementDecisions, which EasyAI and MediumAI inherit.
BasePlacementDecisions(availablePieces) ==
    BasePlace(SortByValue(availablePieces), 1,
              IF Len(centerSquares) > 0 THEN centerSquares ELSE edgeSquares, 0, << >>)

\* getNextPosition of HardAI.getPlacementDecisions; usedPositions holds the
\* positions of the decisions made so far.
getNextPosition(squares, decisions) ==
    LET available == SelectSeq(squares, LAMBDA sq :
                        ~\E k \in 1 .. Len(decisions) : decisions[k].position = sq)
    IN  IF Len(available) = 0 THEN Null ELSE available[1]

RECURSIVE HardPlace(_, _, _, _, _)
\* One of the six loops of HardAI.getPlacementDecisions from piece i on: the
\* next free square of the list, or failing that of the second list.
HardPlace(pieces, i, squares, otherwise, decisions) ==
    IF i > Len(pieces) THEN decisions
    ELSE LET first == getNextPosition(squares, decisions)
             position == IF first = Null THEN getNextPosition(otherwise, decisions)
                         ELSE first
         IN  HardPlace(pieces, i + 1, squares, otherwise,
                       IF position # Null
                       THEN Append(decisions, Decision(pieces[i], position))
                       ELSE decisions)

\* Mutant: the squares already given out are not remembered.
HardPlacementDecisionsForgetful(availablePieces) ==
    LET piecesByType(type) == SelectSeq(availablePieces, LAMBDA piece : piece.type = type)
    IN  HardPlace(piecesByType("flying disk"), 1, backRow, << >>, << >>)
        \o HardPlace(piecesByType("pancake"), 1, centerSquares, << >>, << >>)
        \o HardPlace(piecesByType("bomb"), 1, frontRowSquares, << >>, << >>)
        \o HardPlace(piecesByType("vinyl"), 1, edgeSquares, << >>, << >>)
        \o HardPlace(piecesByType("bagel"), 1, centerSquares, getValidPlacementSquares, << >>)
        \o HardPlace(piecesByType("normal"), 1, getValidPlacementSquares, << >>, << >>)

HardPlacementDecisions(availablePieces) ==
    LET piecesByType(type) == SelectSeq(availablePieces, LAMBDA piece : piece.type = type)
        disks == HardPlace(piecesByType("flying disk"), 1, backRow, << >>, << >>)
        pancakes == HardPlace(piecesByType("pancake"), 1, centerSquares, << >>, disks)
        bombs == HardPlace(piecesByType("bomb"), 1, frontRowSquares, << >>, pancakes)
        vinyls == HardPlace(piecesByType("vinyl"), 1, edgeSquares, << >>, bombs)
        bagels == HardPlace(piecesByType("bagel"), 1, centerSquares,
                            getValidPlacementSquares, vinyls)
    IN  HardPlace(piecesByType("normal"), 1, getValidPlacementSquares, << >>, bagels)

\* The list AIFactory.createAI(difficulty).getPlacementDecisions(gameState,
\* availablePieces) gives.
PlacementDecisionsOf(difficulty, availablePieces) ==
    IF difficulty = "hard" THEN HardPlacementDecisions(availablePieces)
    ELSE BasePlacementDecisions(availablePieces)

getPlacementDecisions(difficulty, availablePieces) ==
    /\ calls < MaxCalls
    /\ lastOp' = [op |-> "getPlacementDecisions", ok |-> FALSE, difficulty |-> difficulty,
                  availablePieces |-> availablePieces,
                  result |-> PlacementDecisionsOf(difficulty, availablePieces)]
    /\ calls' = calls + 1
    /\ UNCHANGED << gameState, selectedPiece, validMoves, pieceSelections >>

\* The draft after startGame.
SetupInit ==
    /\ gameState = [InitialGameState EXCEPT !.phase = "draft"]
    /\ pieceSelections = [p \in PlayerColor |-> InitialSelections]
    /\ lastOp = Op("startGame", TRUE)
    /\ selectedPiece = Null
    /\ validMoves = << >>
    /\ calls = MaxCalls - 1
    /\ relay = RelayInitial

SetupNext ==
    \/ \E difficulty \in AIDifficulty : getDraftSelections(difficulty) /\ UNCHANGED relay
    \/ /\ calls < MaxCalls
       /\ UNCHANGED relay
       /\ \E difficulty \in AIDifficulty, roster \in Rosters :
            getPlacementDecisions(difficulty, generatePiecesFromSelection(roster, 1))

SetupSpec == SetupInit /\ [][SetupNext]_vars

(***************************************************************************)
(* Victory screen (Home.tsx): the winner handed to VictoryModal.           *)
(***************************************************************************)
VictoryWinner ==
    IF gameState.phase = "gameOver"
    THEN IF gameState.pieceCounts.red = 0 THEN "blue"
         ELSE IF gameState.pieceCounts.blue = 0 THEN "red"
         ELSE "null"
    ELSE "null"

(***************************************************************************)
(* Properties.                                                             *)
(***************************************************************************)
History == gameState.moveHistory
LastMove == History[Len(History)]
Committed == lastOp = Op("movePiece", TRUE)
Midpoint(from, to) == Square((from.row + to.row) \div 2, (from.col + to.col) \div 2)

\* C1: for every piece on the board and every on-board destination,
\* isValidMove accepts the destination iff it is in the legal-move list the
\* Move Generator gives for the piece (the list movePiece checks against).
C1_ValidatorMatchesGenerator ==
    \A piece \in BoardPieces, dest \in Squares :
        isValidMove(gameState.board, piece.position, dest, piece)
            <=> Contains(getValidMovesForPiece(piece), dest)

\* C2: right after a committed move that captured a piece, the jump midpoint
\* is empty and the captured piece is on no square of the board, while it is
\* in the capturing player's captured-piece list.
C2_CapturedPieceLeavesBoard ==
    (Committed /\ LastMove.captured # Null) =>
        /\ At(gameState.board, Midpoint(LastMove.from, LastMove.to)) = Null
        /\ LastMove.captured \notin BoardPieces
        /\ \E p \in PlayerColor : Contains(gameState.capturedPieces[p], LastMove.captured)

\* C3: a committed capturing move adds 1 to the score of the player whose turn
\* it was, appends the captured piece to that player's captured list and takes
\* 1 from the other player's piece count, and changes nothing else among the
\* scores, captured lists and piece counts; a committed move without a capture
\* changes none of them.
C3_CaptureBookkeeping ==
    [][ lastOp' = Op("movePiece", TRUE) =>
          LET mover == gameState.currentPlayer
              opponent == Opponent(mover)
              to == gameState'.moveHistory[Len(gameState'.moveHistory)].to
              captured == handleCapture(gameState.board, selectedPiece.position,
                                        to, selectedPiece).capturedPiece
          IN  IF captured # Null
              THEN /\ gameState'.scores[mover] = gameState.scores[mover] + 1
                   /\ gameState'.scores[opponent] = gameState.scores[opponent]
                   /\ gameState'.capturedPieces[mover]
                        = Append(gameState.capturedPieces[mover], captured)
                   /\ gameState'.capturedPieces[opponent]
                        = gameState.capturedPieces[opponent]
                   /\ gameState'.pieceCounts[opponent]
                        = gameState.pieceCounts[opponent] - 1
                   /\ gameState'.pieceCounts[mover] = gameState.pieceCounts[mover]
              ELSE /\ gameState'.scores = gameState.scores
                   /\ gameState'.capturedPieces = gameState.capturedPieces
                   /\ gameState'.pieceCounts = gameState.pieceCounts ]_vars

\* A capturing move has just been committed.
C3_Witness == Committed /\ LastMove.captured # Null

FarRow(player) == IF player = "red" THEN 7 ELSE 0

\* C4: a committed move that lands a piece on the far row of the piece's owner
\* leaves it crowned, a move landing on any other row leaves its crowned flag
\* as it was, and a crowned piece that stays on its square stays crowned.
C4_Crowning ==
    [][ /\ lastOp' = Op("movePiece", TRUE) =>
             LET move == gameState'.moveHistory[Len(gameState'.moveHistory)]
                 landed == At(gameState'.board, move.to)
             IN  IF move.to.row = FarRow(move.piece.player)
                 THEN landed.crowned
                 ELSE landed.crowned = move.piece.crowned
        /\ \A s \in Squares :
             LET before == At(gameState.board, s)
                 after == At(gameState'.board, s)
             IN  (before # Null /\ after # Null /\ before.id = after.id /\ before.crowned)
                     => after.crowned ]_vars

\* C5: the first move of the history is red's, and consecutive entries of the
\* move history are by different players.
C5_TurnsAlternate ==
    /\ Len(History) > 0 => History[1].piece.player = "red"
    /\ \A i \in 1 .. (Len(History) - 1) :
          History[i].piece.player # History[i + 1].piece.player

AllowedEdges ==
    { << "menu", "draft", "startGame" >>,
      << "draft", "placement", "finishDraft" >>,
      << "placement", "play", "finishPlacement" >>,
      << "play", "gameOver", "movePiece" >>,
      << "gameOver", "draft", "startGame" >> }
    \cup { << p, "menu", "resetGame" >> : p \in GamePhase }

\* C7: the phase changes only along the edges of the state machine, each by
\* its own command.
C7_PhaseEdges ==
    [][ gameState'.phase # gameState.phase =>
          << gameState.phase, gameState'.phase, lastOp'.op >> \in AllowedEdges ]_vars

\* C8: once the phase is GameOver, selectPiece, movePiece, placePiece,
\* finishDraft and finishPlacement leave the game state as it is.
C8_GameOverTerminal ==
    [][ ( /\ gameState.phase = "gameOver"
          /\ lastOp'.op \in {"selectPiece", "movePiece", "placePiece",
                             "finishDraft", "finishPlacement"} )
        => gameState' = gameState ]_vars

\* C9: finishDraft moves to Placement, with an empty board and both piece
\* counts 12, exactly when both players' totals are 12; otherwise the phase,
\* the rest of the game state and the draft selections stay as they were.
C9_FinishDraftGuard ==
    [][ lastOp'.op = "finishDraft" =>
          IF /\ Total(pieceSelections.red) = 12
             /\ Total(pieceSelections.blue) = 12
          THEN /\ gameState'.phase = "placement"
               /\ \A s \in Squares : At(gameState'.board, s) = Null
               /\ gameState'.pieceCounts = [red |-> 12, blue |-> 12]
          ELSE /\ gameState' = gameState
               /\ pieceSelections' = pieceSelections ]_vars

\* finishDraft has just moved a Draft with two full rosters to Placement.
C9_Witness ==
    /\ lastOp = Op("finishDraft", TRUE)
    /\ gameState.phase = "placement"
    /\ Total(pieceSelections.red) = 12
    /\ Total(pieceSelections.blue) = 12

\* C10: a placePiece call changes the board only in the Placement phase and
\* only on an empty dark square of the piece owner's three home rows.
C10_PlacementGuard ==
    [][ lastOp'.op = "placePiece" =>
          \A piece \in PlaceRoster, s \in PlaceSquares :
             (placePiece(piece, s.row, s.col) /\ gameState'.board # gameState.board)
             => /\ gameState.phase = "placement"
                /\ At(gameState.board, s) = Null
                /\ s \in getInitialPlacementSquares(piece.player) ]_vars

\* The player has a piece on the board for which the legal-move query
\* getValidMovesForPiece lists a move.
HasLegalMove(player) ==
    \E piece \in BoardPieces :
        piece.player = player /\ Len(getValidMovesForPiece(piece)) > 0

\* C11: while both piece counts are nonzero, checkWinCondition reports game
\* over iff some player has no piece with a legal move by the legal-move
\* query (a bagel's history move included), and the winner it names is the
\* opponent of a player with no legal move.
C11_WinByImmobility ==
    (gameState.pieceCounts.red # 0 /\ gameState.pieceCounts.blue # 0) =>
        LET result == checkWinCondition(gameState.board, gameState.pieceCounts)
        IN  /\ result.gameOver <=> (\E player \in PlayerColor : ~HasLegalMove(player))
            /\ result.gameOver => ~HasLegalMove(Opponent(result.winner))

\* C12: a committed capture that takes a player's piece count to zero sets
\* the phase to GameOver in the same step, and checkWinCondition on the
\* committed board and counts names the other player the winner, whatever the
\* board holds.
C12_CountExhaustion ==
    [][ \A player \in PlayerColor :
          ( /\ lastOp' = Op("movePiece", TRUE)
            /\ gameState.pieceCounts[player] # 0
            /\ gameState'.pieceCounts[player] = 0 )
          => /\ gameState'.phase = "gameOver"
             /\ checkWinCondition(gameState'.board, gameState'.pieceCounts)
                    = WinResult(TRUE, Opponent(player)) ]_vars

\* C13: when a committed move ends the game with both piece counts nonzero,
\* because checkWinCondition found a player without a move, the winner shown
\* for the finished game is the winner checkWinCondition returned for that
\* move, the opponent of the player without a move.
C13_ImmobilityWinnerDeclared ==
    LET result == checkWinCondition(gameState.board, gameState.pieceCounts)
    IN  ( /\ Committed
          /\ gameState.phase = "gameOver"
          /\ gameState.pieceCounts.red # 0 /\ gameState.pieceCounts.blue # 0
          /\ result.gameOver )
        => /\ VictoryWinner \in PlayerColor
           /\ VictoryWinner = result.winner

\* The move of the piece to the square is one handleCapture credits a capture for.
IsCapture(piece, to) ==
    handleCapture(gameState.board, piece.position, to, piece).capturedPiece # Null

\* The player has a piece on the board with a capturing move in its legal-move list.
CaptureAvailable(player) ==
    \E piece \in BoardPieces :
        /\ piece.player = player
        /\ \E to \in Elements(getValidMovesForPiece(piece)) : IsCapture(piece, to)

\* C14: in the Play phase, a move committed while the active player has a
\* capturing move available for one of their pieces is a capturing move.
C14_CapturesMandatory ==
    [][ ( /\ lastOp' = Op("movePiece", TRUE)
          /\ gameState.phase = "play"
          /\ CaptureAvailable(gameState.currentPlayer) )
        => gameState'.moveHistory[Len(gameState'.moveHistory)].captured # Null ]_vars

\* The row direction a player's uncrowned pieces move in.
Forward(player) == IF player = "red" THEN 1 ELSE -1

\* The piece may move by rowDiff rows: forward, or backward when crowned.
RowPermitted(piece, rowDiff) ==
    \/ Sign(rowDiff) = Forward(piece.player)
    \/ piece.crowned /\ Sign(rowDiff) = -Forward(piece.player)

HoldsOpponent(board, s, player) == At(board, s) # Null /\ At(board, s).player # player

\* The squares of a normal piece: empty squares of the board one diagonal step
\* away, or two diagonal steps away over an opposing piece, in a permitted
\* row direction.
NormalSquares(board, piece) ==
    { s \in Squares :
        LET rowDiff == s.row - piece.position.row
            colDiff == s.col - piece.position.col
        IN  /\ At(board, s) = Null
            /\ RowPermitted(piece, rowDiff)
            /\ \/ Abs(rowDiff) = 1 /\ Abs(colDiff) = 1
               \/ /\ Abs(rowDiff) = 2 /\ Abs(colDiff) = 2
                  /\ HoldsOpponent(board, Midpoint(piece.position, s), piece.player) }

\* C15: for every normal piece on the board, getNormalMoves returns exactly
\* the empty on-board squares one diagonal step forward, the empty on-board
\* squares two diagonal steps forward over an opposing piece, and, for a
\* crowned piece only, the same squares backward.
C15_NormalMoves ==
    \A piece \in BoardPieces :
        piece.type = "normal" =>
            Elements(getNormalMoves(gameState.board, piece))
                = NormalSquares(gameState.board, piece)

\* A normal piece has been selected whose legal moves are a step and a jump.
C15_Witness ==
    /\ lastOp = Op("selectPiece", TRUE)
    /\ selectedPiece.type = "normal"
    /\ validMoves = getNormalMoves(gameState.board, selectedPiece)
    /\ \E to \in Elements(validMoves) : IsCapture(selectedPiece, to)
    /\ \E to \in Elements(validMoves) : ~IsCapture(selectedPiece, to)

\* The empty squares of the piece's row one step to its left or right, and two
\* steps to its left or right over an opposing piece.
LateralSquares(board, piece) ==
    { s \in Squares :
        LET colDiff == s.col - piece.position.col
        IN  /\ s.row = piece.position.row
            /\ At(board, s) = Null
            /\ \/ Abs(colDiff) = 1
               \/ /\ Abs(colDiff) = 2
                  /\ HoldsOpponent(board, Midpoint(piece.position, s), piece.player) }

\* C16: for every pancake on the board, getPancakeMoves returns exactly the
\* squares getNormalMoves returns for a normal piece of the same owner,
\* position and crowned status, together with the lateral squares.
C16_PancakeMoves ==
    \A piece \in BoardPieces :
        piece.type = "pancake" =>
            Elements(getPancakeMoves(gameState.board, piece))
                = Elements(getNormalMoves(gameState.board, [piece EXCEPT !.type = "normal"]))
                  \cup LateralSquares(gameState.board, piece)

\* The square the bagel may take from the history: the origin of the last
\* move, when the opponent made it, the square is empty and it lies on a
\* diagonal of the bagel in a permitted row direction.
HistorySquares(board, piece, moveHistory) ==
    IF Len(moveHistory) = 0 THEN {}
    ELSE LET last == moveHistory[Len(moveHistory)]
             rowDiff == last.from.row - piece.position.row
             colDiff == last.from.col - piece.position.col
         IN  IF /\ last.piece.player = Opponent(piece.player)
                /\ At(board, last.from) = Null
                /\ Abs(rowDiff) = Abs(colDiff)
                /\ RowPermitted(piece, rowDiff)
             THEN { last.from }
             ELSE {}

\* C17: for every bagel on the board, getBagelMoves with the move history
\* returns the getNormalMoves squares and, besides them, only the origin of
\* the last move, that one exactly when the opponent made the move, the
\* square is empty and it is diagonally reachable in a permitted direction;
\* with no history or a last move of the bagel's side it returns the normal
\* moves.
C17_BagelMoves ==
    \A piece \in BoardPieces :
        piece.type = "bagel" =>
            LET moves == getBagelMoves(gameState.board, piece, History)
                normalMoves == getNormalMoves(gameState.board, piece)
            IN  /\ Elements(moves) = Elements(normalMoves)
                        \cup HistorySquares(gameState.board, piece, History)
                /\ (Len(History) = 0 \/ LastMove.piece.player = piece.player)
                        => moves = normalMoves

\* A bagel has been selected whose legal moves end with the origin of the
\* opponent's last move, a square that is not one of its normal moves.
C17_Witness ==
    /\ lastOp = Op("selectPiece", TRUE)
    /\ selectedPiece.type = "bagel"
    /\ validMoves = getBagelMoves(gameState.board, selectedPiece, History)
    /\ Len(History) > 0
    /\ Contains(validMoves, LastMove.from)
    /\ ~Contains(getNormalMoves(gameState.board, selectedPiece), LastMove.from)

ImmobileTypes == {"bomb", "vinyl", "flying disk"}

IsJumpGeometry(from, to, piece) ==
    LET rowDiff == to.row - from.row
        colDiff == to.col - from.col
    IN  \/ Abs(rowDiff) = 2 /\ Abs(colDiff) = 2
        \/ piece.type = "pancake" /\ rowDiff = 0 /\ Abs(colDiff) = 2

\* C19: for every piece of the board, moved from its square to any square of
\* the board, handleCapture returns the piece on the midpoint and the midpoint
\* itself when the move has the jump geometry and the midpoint holds a piece
\* of the opposing player, and no capture in every other case.
C19_HandleCapture ==
    \A piece \in BoardPieces, to \in Squares :
        LET from == piece.position
            mid == Midpoint(from, to)
        IN  handleCapture(gameState.board, from, to, piece)
              = IF /\ IsJumpGeometry(from, to, piece)
                   /\ HoldsOpponent(gameState.board, mid, piece.player)
                THEN [capturedPiece |-> At(gameState.board, mid), capturedSquare |-> mid]
                ELSE NoCapture

\* A pancake's jump along its row has just been committed with its capture.
C19_Witness ==
    /\ Committed
    /\ LastMove.piece.type = "pancake"
    /\ LastMove.from.row = LastMove.to.row
    /\ LastMove.captured # Null
    /\ LastMove.captured.position = Midpoint(LastMove.from, LastMove.to)

\* C20: getNextMove returns null whenever the active player is not blue, and
\* a move it returns names a blue piece that is on the board at its stored
\* position, moved from that position to a square the Move Generator lists
\* for the piece on the board.
C20_AIMoveIsLegal ==
    lastOp.op = "getNextMove" =>
        /\ gameState.currentPlayer # playerColor => lastOp.result = Null
        /\ lastOp.result # Null =>
            LET move == lastOp.result
            IN  /\ move.piece.player = playerColor
                /\ InBounds(move.piece.position)
                /\ At(gameState.board, move.piece.position) = move.piece
                /\ move.from = move.piece.position
                /\ Contains(getValidMovesForPiece(move.piece), move.to)

\* An AI of the given difficulty was asked on blue's turn and returned a move.
C20_Witness ==
    /\ lastOp.op = "getNextMove"
    /\ lastOp.ok
    /\ lastOp.difficulty = "hard"
    /\ gameState.currentPlayer = playerColor
    /\ IsCapture(lastOp.result.piece, lastOp.result.to)

\* The Win Evaluator's scan finds a move for some piece of the player.
ScanHasMoves(player) ==
    \E piece \in BoardPieces :
        piece.player = player /\ Len(ScanMoves(gameState.board, piece)) > 0

\* C21: when getNextMove is asked on blue's turn, it returns null exactly when
\* the Win Evaluator's scan finds no move for blue; and in a Play state that
\* checkWinCondition reports as not over, it returns a move.
C21_NullIffImmobilized ==
    (lastOp.op = "getNextMove" /\ gameState.currentPlayer = playerColor)
        => /\ lastOp.result = Null <=> ~ScanHasMoves(playerColor)
           /\ (/\ gameState.phase = "play"
               /\ ~checkWinCondition(gameState.board, gameState.pieceCounts).gameOver)
                    => lastOp.result # Null

\* C22: after startGame, from any state, the game is in a fresh Draft state:
\* empty board, scores 0, captured lists and move history empty, piece counts
\* 0, inactive, red the active player, every draft selection count 0.
C22_StartGameFresh ==
    lastOp.op = "startGame"
        => /\ gameState.phase = "draft"
           /\ gameState.board = initializeEmptyBoard
           /\ gameState.scores = [red |-> 0, blue |-> 0]
           /\ gameState.capturedPieces = [red |-> << >>, blue |-> << >>]
           /\ gameState.moveHistory = << >>
           /\ gameState.pieceCounts = [red |-> 0, blue |-> 0]
           /\ ~gameState.gameActive
           /\ gameState.currentPlayer = "red"
           /\ \A p \in PlayerColor : \A i \in 1 .. Len(pieceSelections[p]) :
                    pieceSelections[p][i].count = 0

\* The change the draft rules give one toggle of a variant.
ToggleDelta(player, pieceType) ==
    LET i == SelectionIndex(pieceSelections[player], pieceType)
        count == pieceSelections[player][i].count
        total == count + SumCounts(SelectSeq(pieceSelections[player],
                                             LAMBDA e : e.type # pieceType), 1)
    IN  IF count < MAX_PIECE_COUNTS[pieceType] /\ total < TOTAL_PIECES_PER_PLAYER THEN 1
        ELSE IF count > 0 THEN -1
        ELSE 0

\* C23: every variant's selected count lies between 0 and its maximum (normal
\* 12, bagel 6, pancake 6) and a player's total is at most 12; one
\* togglePieceSelection changes only the addressed player's addressed variant,
\* by +1 when the count is below its maximum and the total below 12, otherwise
\* by -1 when the count is above 0, otherwise not at all.
C23_DraftSelections ==
    /\ [](\A p \in PlayerColor :
            /\ \A i \in 1 .. Len(pieceSelections[p]) :
                    /\ pieceSelections[p][i].count >= 0
                    /\ pieceSelections[p][i].count
                            <= MAX_PIECE_COUNTS[pieceSelections[p][i].type]
            /\ Total(pieceSelections[p]) <= TOTAL_PIECES_PER_PLAYER)
    /\ [][\A player \in PlayerColor, pieceType \in DraftTypes :
            togglePieceSelection(player, pieceType)
                => \A p \in PlayerColor : \A i \in 1 .. Len(pieceSelections[p]) :
                        pieceSelections'[p][i] =
                            IF p = player /\ pieceSelections[p][i].type = pieceType
                            THEN [pieceSelections[p][i] EXCEPT
                                    !.count = @ + ToggleDelta(player, pieceType)]
                            ELSE pieceSelections[p][i]]_vars

\* Red has drafted six bagels and six pancakes and blue twelve normal pieces:
\* every maximum and both totals are reached.
C23_Witness ==
    /\ lastOp.op = "togglePieceSelection"
    /\ pieceSelections.red[2].count = MaxBagel
    /\ pieceSelections.red[3].count = MaxPancake
    /\ pieceSelections.blue[1].count = MaxNormal

\* C24: isValidMove never throws: for any board, piece and destination,
\* off the board or occupied included, it returns, and returns false for a
\* destination that is off the board or occupied.
C24_NeverThrows ==
    lastOp.op = "isValidMove"
        => /\ lastOp.outcome # "TypeError"
           /\ (~InBounds(lastOp.to) \/ At(gameState.board, lastOp.to) # Null)
                    => lastOp.outcome = "false"

\* C25: for each tier, the counts returned by getDraftSelections sum to the
\* roster size 12.
C25_DraftSumsToRoster ==
    lastOp.op = "getDraftSelections"
        => SumCounts(lastOp.result, 1) = TOTAL_PIECES_PER_PLAYER

\* The legal (piece, destination) pairs of the AI's pieces, by the validator.
LegalPairs ==
    { pair \in { p \in BoardPieces : p.player = playerColor } \X Squares :
        isValidMove(gameState.board, pair[1].position, pair[2], pair[1]) }

\* The pairs whose destination is two columns from the origin.
CapturePairs == { pair \in LegalPairs : Abs(pair[2].col - pair[1].position.col) = 2 }

\* The call the last step made, on the AI's turn, for a tier.
AskedOnTurn(difficulty) ==
    /\ lastOp.op = "getNextMove"
    /\ lastOp.difficulty = difficulty
    /\ gameState.currentPlayer = playerColor

\* C26: the Medium tier returns one of the captures when the legal list holds
\* one, otherwise some member of the list, and never null when the list is
\* not empty.
C26_MediumPrefersCaptures ==
    AskedOnTurn("medium")
        => /\ LegalPairs # {} => lastOp.result # Null
           /\ lastOp.result # Null
                => << lastOp.result.piece, lastOp.result.to >>
                        \in (IF CapturePairs # {} THEN CapturePairs ELSE LegalPairs)

\* Medium has returned a capture where a move that is no capture was legal.
C26_Witness ==
    /\ AskedOnTurn("medium")
    /\ lastOp.result # Null
    /\ << lastOp.result.piece, lastOp.result.to >> \in CapturePairs
    /\ LegalPairs # CapturePairs

\* The place of a variant in the order normal, bagel, vinyl, bomb, pancake,
\* flying disk.
ValueRank(type) ==
    CHOOSE i \in 1 .. 6 :
        << "normal", "bagel", "vinyl", "bomb", "pancake", "flying disk" >>[i] = type

\* C27: when a capture is legal, the Hard tier returns a capture whose piece
\* has the least value among the capturing pieces.
C27_HardCheapestCapture ==
    (AskedOnTurn("hard") /\ CapturePairs # {})
        => /\ lastOp.result # Null
           /\ << lastOp.result.piece, lastOp.result.to >> \in CapturePairs
           /\ \A pair \in CapturePairs :
                    ValueRank(lastOp.result.piece.type) <= ValueRank(pair[1].type)

\* Hard has returned a capture by a piece of less value than another piece
\* that could capture.
C27_Witness ==
    /\ AskedOnTurn("hard")
    /\ lastOp.result # Null
    /\ \E pair \in CapturePairs :
            ValueRank(lastOp.result.piece.type) < ValueRank(pair[1].type)

\* C28: the Hard tier's placement never gives one square to two pieces, never
\* places one piece twice, and gives only dark squares of rows 5 to 7.
C28_HardPlacementDistinct ==
    (lastOp.op = "getPlacementDecisions" /\ lastOp.difficulty = "hard")
        => LET decisions == lastOp.result
           IN  /\ \A i, j \in 1 .. Len(decisions) :
                    i # j => /\ decisions[i].position # decisions[j].position
                             /\ decisions[i].piece.id # decisions[j].piece.id
               /\ \A i \in 1 .. Len(decisions) :
                    /\ decisions[i].position.row \in 5 .. 7
                    /\ decisions[i].position.col \in Idx
                    /\ (decisions[i].position.row + decisions[i].position.col) % 2 = 1

\* The Hard tier has placed twelve pieces and left a piece of the roster out:
\* the lists of squares ran out.
C28_Witness ==
    /\ lastOp.op = "getPlacementDecisions"
    /\ lastOp.difficulty = "hard"
    /\ Len(lastOp.result) = TOTAL_PIECES_PER_PLAYER
    /\ Len(lastOp.availablePieces) > TOTAL_PIECES_PER_PLAYER

\* C29: each committed move appends exactly one record to the move history,
\* holding the moved piece, its origin, its destination and the captured
\* piece or none; no move and no rejected command changes the records
\* already there; only startGame and resetGame empty the history.
C29_HistoryAppendOnly ==
    [][LET old == gameState.moveHistory
           new == gameState'.moveHistory
       IN  IF lastOp' = Op("movePiece", TRUE)
           THEN /\ Len(new) = Len(old) + 1
                /\ SubSeq(new, 1, Len(old)) = old
                /\ new[Len(new)].piece = selectedPiece
                /\ new[Len(new)].from = selectedPiece.position
                /\ At(gameState'.board, new[Len(new)].to).id = selectedPiece.id
                /\ new[Len(new)].captured = Null
                        <=> gameState'.pieceCounts = gameState.pieceCounts
                /\ new[Len(new)].captured # Null
                        => new[Len(new)].captured =
                                At(gameState.board,
                                   Midpoint(new[Len(new)].from, new[Len(new)].to))
           ELSE \/ new = old
                \/ new = << >> /\ lastOp'.op \in {"startGame", "resetGame"}]_vars

\* A second move has been committed and the history holds two records.
C29_Witness ==
    /\ Committed
    /\ Len(History) = 2
    /\ History[1].to # LastMove.to

\* The squares of a board that hold the piece of an id.
SquaresOf(board, id) == { s \in Squares : At(board, s).id = id }

\* No piece is held by two squares of the board.
OnePlaceEach(board) ==
    \A s \in Squares :
        At(board, s) # Null => SquaresOf(board, At(board, s).id) = {s}

\* C30: every piece the board holds at (r, c) has stored position (r, c); and
\* a committed move empties the origin and fills the destination, so that the
\* moved piece is held by exactly one square afterwards (on a board where no
\* piece was held by two squares before the move).
C30_PositionsMatchGrid ==
    /\ [](\A s \in Squares :
            At(gameState.board, s) # Null => At(gameState.board, s).position = s)
    /\ [][lastOp' = Op("movePiece", TRUE)
            => LET to == gameState'.moveHistory[Len(gameState'.moveHistory)].to
               IN  /\ At(gameState'.board, selectedPiece.position) = Null
                   /\ At(gameState'.board, to).id = selectedPiece.id
                   /\ OnePlaceEach(gameState.board)
                        => SquaresOf(gameState'.board, selectedPiece.id) = {to}]_vars

\* A dark square: (row + col) is odd.
Dark(s) == (s.row + s.col) % 2 = 1

HardQuiet == AskedOnTurn("hard") /\ CapturePairs = {} /\ LegalPairs # {}

\* C32 as stated: with no capture, the Hard tier returns a move reaching row
\* 0 if any legal move does; otherwise a move into columns 2 to 5 if any
\* legal move goes there; otherwise a forward move if any piece has one;
\* otherwise some legal move.
C32_PriorityOverAllMoves ==
    HardQuiet
        => /\ lastOp.result # Null
           /\ << lastOp.result.piece, lastOp.result.to >> \in LegalPairs
           /\ IF \E pair \in LegalPairs : pair[2].row = 0
              THEN lastOp.result.to.row = 0
              ELSE IF \E pair \in LegalPairs : pair[2].col \in 2 .. 5
              THEN lastOp.result.to.col \in 2 .. 5
              ELSE IF \E pair \in LegalPairs : pair[2].row < pair[1].position.row
              THEN lastOp.result.to.row < lastOp.result.from.row
              ELSE TRUE

\* The legal pairs that take an uncrowned piece toward row 0.
ForwardPairs ==
    { pair \in LegalPairs : ~pair[1].crowned /\ pair[2].row < pair[1].position.row }

\* C32 as amended: with no capture, when some uncrowned piece has a forward
\* move the Hard tier returns one of those forward moves, one reaching row 0
\* if any of them does, otherwise one into columns 2 to 5 if any of them goes
\* there; when no uncrowned piece has a forward move it returns some legal
\* move.
C32_PriorityAmongForward ==
    HardQuiet
        => /\ lastOp.result # Null
           /\ << lastOp.result.piece, lastOp.result.to >> \in LegalPairs
           /\ ForwardPairs # {}
                => /\ << lastOp.result.piece, lastOp.result.to >> \in ForwardPairs
                   /\ IF \E pair \in ForwardPairs : pair[2].row = 0
                      THEN lastOp.result.to.row = 0
                      ELSE (\E pair \in ForwardPairs : pair[2].col \in 2 .. 5)
                                => lastOp.result.to.col \in 2 .. 5

\* The Hard tier has returned a forward move to an edge column although a
\* step along the row into the centre columns was legal.
C32_Witness ==
    /\ HardQuiet
    /\ lastOp.result # Null
    /\ << lastOp.result.piece, lastOp.result.to >> \in ForwardPairs
    /\ lastOp.result.to.col \notin 2 .. 5
    /\ \E pair \in LegalPairs \ ForwardPairs : pair[2].col \in 2 .. 5

\* The number of decisions the result holds for the piece.
DecisionsFor(piece) ==
    Cardinality({ i \in 1 .. Len(lastOp.result) : lastOp.result[i].piece.id = piece.id })

\* C33: for every tier and every roster of at most twelve pieces,
\* getPlacementDecisions returns exactly one decision for each roster piece.
C33_EveryPiecePlaced ==
    (lastOp.op = "getPlacementDecisions"
        /\ Len(lastOp.availablePieces) <= TOTAL_PIECES_PER_PLAYER)
        => \A k \in 1 .. Len(lastOp.availablePieces) :
                DecisionsFor(lastOp.availablePieces[k]) = 1

\* C34: in every reachable state each player's piece count is at least 0 and
\* each player's score is at most twelve.
C34_CountsAndScoresBounded ==
    \A player \in PlayerColor :
        /\ gameState.pieceCounts[player] >= 0
        /\ gameState.scores[player] <= TOTAL_PIECES_PER_PLAYER

\* C35: in Menu, Draft and Placement no selectPiece or movePiece call selects
\* a piece or changes the board, the active player, the move history, the
\* scores or the piece counts.
C35_MovesOnlyInPlay ==
    [][(gameState.phase \in {"menu", "draft", "placement"}
            /\ lastOp'.op \in {"selectPiece", "movePiece"})
        => /\ ~lastOp'.ok
           /\ selectedPiece' = selectedPiece
           /\ gameState'.board = gameState.board
           /\ gameState'.currentPlayer = gameState.currentPlayer
           /\ gameState'.moveHistory = gameState.moveHistory
           /\ gameState'.scores = gameState.scores
           /\ gameState'.pieceCounts = gameState.pieceCounts]_vars

\* C36: every committed move moves a piece that is, at the commit, on the
\* board at the recorded origin and owned by the active player, to a square
\* that is legal for it on the current board.
C36_NoStaleSelection ==
    [][lastOp' = Op("movePiece", TRUE)
        => LET move == gameState'.moveHistory[Len(gameState'.moveHistory)]
           IN  /\ At(gameState.board, move.from) = move.piece
               /\ move.piece.player = gameState.currentPlayer
               /\ Contains(getValidMovesForPiece(move.piece), move.to)]_vars

-----------------------------------------------------------------------------
\* Commands issued back to back from one rendered snapshot.  A handler is a
\* closure over the gameState of the render it was created in; setGameState
\* is handed a value, so each call replaces what the call before it queued.

\* The state after finishDraft with twelve pieces drafted a side.
PlacementState ==
    [InitialGameState EXCEPT
        !.phase = "placement",
        !.gameActive = TRUE,
        !.pieceCounts = [red |-> TOTAL_PIECES_PER_PLAYER, blue |-> TOTAL_PIECES_PER_PLAYER]]

Command(piece, square) == [piece |-> piece, square |-> square]

\* The runs of placePiece calls one event handler makes.
Batches ==
    UNION { [1 .. n -> { Command(piece, square) :
                            piece \in PlaceRoster,
                            square \in getInitialPlacementSquares("blue") }] :
            n \in 1 .. MaxBatch }

RECURSIVE setGameStateQueue(_, _, _, _)
\* placePiece called for commands i, i + 1, ... with the snapshot; pending is
\* the value the calls so far have handed to setGameState.
setGameStateQueue(snapshot, commands, i, pending) ==
    IF i > Len(commands) THEN pending
    ELSE LET piece == commands[i].piece
             row == commands[i].square.row
             col == commands[i].square.col
         IN  setGameStateQueue(snapshot, commands, i + 1,
                IF snapshot.phase # "placement" THEN pending
                ELSE [snapshot EXCEPT
                        !.board[row][col] = [piece EXCEPT !.position = Square(row, col)]])

placePieceBatch(commands) ==
    /\ gameState' = setGameStateQueue(gameState, commands, 1, gameState)
    /\ lastOp' = [op |-> "placePiece", ok |-> gameState.phase = "placement",
                  commands |-> commands]
    /\ calls' = calls + 1
    /\ UNCHANGED << selectedPiece, validMoves, pieceSelections >>

BatchInit ==
    /\ gameState = PlacementState
    /\ selectedPiece = Null
    /\ validMoves = << >>
    /\ pieceSelections = DraftedSelections
    /\ lastOp = Op("finishDraft", TRUE)
    /\ calls = MaxCalls - 1
    /\ relay = RelayInitial

BatchNext ==
    /\ calls < MaxCalls
    /\ UNCHANGED relay
    /\ \E commands \in Batches : placePieceBatch(commands)

BatchSpec == BatchInit /\ [][BatchNext]_vars

\* C37: no accepted command is lost: after placePiece calls issued back to
\* back from one snapshot for different pieces and different squares, every
\* piece placed is on the board at its square.
C37_NoCommandLost ==
    (lastOp.op = "placePiece" /\ lastOp.ok)
        => \A i \in 1 .. Len(lastOp.commands) :
                (\A j \in 1 .. Len(lastOp.commands) :
                    j # i => /\ lastOp.commands[j].square # lastOp.commands[i].square
                             /\ lastOp.commands[j].piece # lastOp.commands[i].piece)
                    => At(gameState.board, lastOp.commands[i].square).id
                            = lastOp.commands[i].piece.id

\* The list of (piece, move) pairs getNextMove builds on the board.
PossibleMoves ==
    Elements(allPossibleMoves(getAIPieces(gameState), 1, gameState.board))

\* The capture handleCapture reports for a pair of the list.
Captured(moveObj) ==
    handleCapture(gameState.board, moveObj.piece.position, moveObj.move,
                  moveObj.piece).capturedPiece

\* C38: for every pair of the list getNextMove builds, the destination is two
\* columns from the origin if and only if handleCapture returns a captured
\* piece for the move on the board.
C38_CaptureTestExact ==
    gameState.currentPlayer = playerColor
        => \A moveObj \in PossibleMoves :
                IsCapturingMove(moveObj) <=> Captured(moveObj) # Null

\* The AI has been asked on its turn with a list that holds a diagonal jump,
\* a pancake's jump along its row and a move that is no capture.
C38_Witness ==
    /\ lastOp.op = "getNextMove"
    /\ gameState.currentPlayer = playerColor
    /\ \E moveObj \in PossibleMoves :
            IsCapturingMove(moveObj) /\ moveObj.move.row = moveObj.piece.position.row
    /\ \E moveObj \in PossibleMoves :
            IsCapturingMove(moveObj) /\ moveObj.move.row # moveObj.piece.position.row
    /\ \E moveObj \in PossibleMoves : ~IsCapturingMove(moveObj)

\* The player has a legal move for one of their pieces on the board.
PlayerCanMove(player) ==
    \E piece \in BoardPieces :
        /\ piece.player = player
        /\ Len(getValidMovesForPiece(piece)) > 0

CanMove == PlayerCanMove(gameState.currentPlayer)

-----------------------------------------------------------------------------
\* WebSocket relay (routes.ts, registerRoutes; index.js is its bundled copy).

\* What JSON.parse yields: null, or an object whose type is game_update,
\* another string, or missing.
JsonNull == [kind |-> "null"]
JsonObject(type) == [kind |-> "object", type |-> type]
SyntaxError == [kind |-> "SyntaxError"]

\* A message text: the compact text JSON.stringify writes, a text with other
\* spacing, or a text that is no JSON.
Text(form, data) == [form |-> form, data |-> data]

Messages ==
    { Text("broken", JsonNull) }
        \cup { Text(form, data) :
                form \in {"compact", "spaced"},
                data \in { JsonNull } \cup
                         { JsonObject(type) : type \in {"game_update", "chat", "undefined"} } }

JSONparse(message) == IF message.form = "broken" THEN SyntaxError ELSE message.data

JSONstringify(data) == Text("compact", data)

Send(client, text) == [to |-> client, text |-> text]

\* wss.on("connection"): the socket is OPEN, joins the Set and is greeted.
onConnection(ws) ==
    /\ relay.readyState[ws] = "NONE"
    /\ relay' = [relay EXCEPT !.clients = @ \cup {ws}, !.readyState[ws] = "OPEN"]
    /\ lastOp' = [op |-> "connection", ok |-> TRUE, ws |-> ws,
                  sent |-> { Send(ws, JSONstringify(JsonObject("connection_established"))) }]
    /\ UNCHANGED << gameState, selectedPiece, validMoves, pieceSelections, calls >>

\* Mutant: the sender is not left out.
onMessageEcho(ws, message) ==
    LET data == JSONparse(message)
        thrown == data.kind \in {"SyntaxError", "null"}
        recipients ==
            IF ~thrown /\ data.type = "game_update"
            THEN { client \in relay.clients : relay.readyState[client] = "OPEN" }
            ELSE {}
    IN  /\ ws \in relay.clients
        /\ lastOp' = [op |-> "message", ok |-> ~thrown, ws |-> ws, message |-> message,
                      sent |-> { Send(client, JSONstringify(data)) : client \in recipients }]
        /\ UNCHANGED << gameState, selectedPiece, validMoves, pieceSelections, calls, relay >>

\* ws.on("message"): JSON.parse throws on a text that is no JSON and data.type
\* throws on null; both are caught.
onMessage(ws, message) ==
    LET data == JSONparse(message)
        thrown == data.kind \in {"SyntaxError", "null"}
        recipients ==
            IF ~thrown /\ data.type = "game_update"
            THEN { client \in relay.clients :
                        client # ws /\ relay.readyState[client] = "OPEN" }
            ELSE {}
    IN  /\ ws \in relay.clients
        /\ lastOp' = [op |-> "message", ok |-> ~thrown, ws |-> ws, message |-> message,
                      sent |-> { Send(client, JSONstringify(data)) : client \in recipients }]
        /\ UNCHANGED << gameState, selectedPiece, validMoves, pieceSelections, calls, relay >>

\* The peer's close frame arrives: the socket is CLOSING until its close
\* event.
closing(ws) ==
    /\ relay.readyState[ws] = "OPEN"
    /\ relay' = [relay EXCEPT !.readyState[ws] = "CLOSING"]
    /\ lastOp' = [op |-> "closing", ok |-> TRUE, ws |-> ws]
    /\ UNCHANGED << gameState, selectedPiece, validMoves, pieceSelections, calls >>

\* ws.on("error"): the socket is CLOSING when the event is emitted; the
\* handler logs.
onError(ws) ==
    /\ relay.readyState[ws] = "OPEN"
    /\ relay' = [relay EXCEPT !.readyState[ws] = "CLOSING"]
    /\ lastOp' = [op |-> "error", ok |-> TRUE, ws |-> ws]
    /\ UNCHANGED << gameState, selectedPiece, validMoves, pieceSelections, calls >>

\* ws.on("close"): the socket is CLOSED when the event is emitted; the
\* handler takes it out of the Set.
onClose(ws) ==
    /\ ws \in relay.clients
    /\ relay' = [relay EXCEPT
            !.clients = @ \ {ws},
            !.readyState[ws] = "CLOSED",
            !.closeHandled = @ \cup {ws}]
    /\ lastOp' = [op |-> "close", ok |-> TRUE, ws |-> ws]
    /\ UNCHANGED << gameState, selectedPiece, validMoves, pieceSelections, calls >>

RelayInit == Init

RelayNext ==
    \/ \E ws \in Sockets : onConnection(ws)
    \/ \E ws \in Sockets, message \in Messages : onMessage(ws, message)
    \/ \E ws \in Sockets : closing(ws)
    \/ \E ws \in Sockets : onError(ws)
    \/ \E ws \in Sockets : onClose(ws)

RelaySpec == RelayInit /\ [][RelayNext]_vars

\* The text holds an object of type game_update.
IsGameUpdate(message) ==
    /\ message.form # "broken"
    /\ message.data.kind = "object"
    /\ message.data.type = "game_update"

\* C40: a game_update message received from a client is sent on to every
\* other client that is connected and OPEN, never back to its sender and
\* never to a client whose close event has been handled; a message of
\* another type or one that does not parse is sent to no one.
C40_RelayForwarding ==
    lastOp.op = "message"
        => LET sentTo == { send.to : send \in lastOp.sent }
           IN  IF IsGameUpdate(lastOp.message)
               THEN /\ sentTo = { client \in Sockets \ {lastOp.ws} :
                                    /\ relay.readyState[client] = "OPEN"
                                    /\ client \notin relay.closeHandled }
                    /\ lastOp.ws \notin sentTo
                    /\ sentTo \cap relay.closeHandled = {}
                    /\ Cardinality(lastOp.sent) = Cardinality(sentTo)
                    /\ \A send \in lastOp.sent :
                            JSONparse(send.text) = JSONparse(lastOp.message)
               ELSE lastOp.sent = {}

\* A game_update has been received and sent on to a client while another
\* client's close event had been handled before.
C40_Witness ==
    /\ lastOp.op = "message"
    /\ IsGameUpdate(lastOp.message)
    /\ lastOp.message.form = "spaced"
    /\ lastOp.sent # {}
    /\ relay.closeHandled # {}

=============================================================================
